---- MODULE Spec2Model ----
(***************************************************************************)
(* Model of split_file_from_stream (scripts/split_msb_lsb.py): the         *)
(* buffered read loop that deinterleaves a stream of 16-bit words into a   *)
(* lower-byte file and an upper-byte file, the one-byte remainder carried  *)
(* between reads, and the odd-length tail policy.                          *)
(*                                                                         *)
(* Byte strings are sequences of small naturals.  A Python slice s[a:b]    *)
(* is SubSeq(s, a+1, b).  Each output file is a record                     *)
(* [state, buf, disk]: buf holds the bytes the BufferedWriter has accepted *)
(* but not yet handed to the file, disk the bytes that reached the file.   *)
(* An I/O failure is modelled where the code can observe it: open(),       *)
(* read() and write() either succeed or raise IOError.                     *)
(***************************************************************************)
EXTENDS Integers, Sequences, FiniteSets, TLC

\* ---- bounds of the model ------------------------------------------------
MaxLen == 4
MaxBuf == 3
MaxByte == 1

Byte == 0..MaxByte
Actions == {"error", "skip", "lower", "upper"}

RECURSIVE SeqsUpTo(_)
SeqsUpTo(n) == IF n = 0 THEN {<<>>}
               ELSE SeqsUpTo(n - 1) \cup [1..n -> Byte]

VARIABLES
    word_file,        \* the whole content of the input stream
    pos,              \* bytes already consumed from word_file
    big_endian,       \* byte order flag
    odd_byte_action,  \* "error" | "skip" | "lower" | "upper"
    buffer_size,      \* size passed to read() and to open(buffering=)
    lo_byte_file,     \* lower output file
    up_byte_file,     \* upper output file
    bytes_written,    \* count of complete word pairs written
    odd_byte_value,   \* -1, or the value of the trailing byte
    remainder,        \* carry between reads
    read_data,        \* result of the last read()
    chunk,            \* remainder + read_data
    word_pairs,       \* len(chunk) // 2
    lo_bytes,         \* bytes of the current chunk bound for the lower file
    up_bytes,         \* bytes of the current chunk bound for the upper file
    pc,               \* position in split_file_from_stream
    exc,              \* exception in flight: "none" | "IOError" | "SystemExit"
    outcome,          \* how the call ended
    result,           \* the returned tuple
    nReads,           \* read() calls made by this call
    nWrites,          \* write() calls made by this call
    run,              \* 1 for the first call on this input, 2 for the second
    prev              \* what the first call left behind

vars == <<word_file, pos, big_endian, odd_byte_action, buffer_size,
          lo_byte_file, up_byte_file, bytes_written, odd_byte_value,
          remainder, read_data, chunk, word_pairs, lo_bytes, up_bytes,
          pc, exc, outcome, result, nReads, nWrites, run, prev>>

\* ---- byte strings and files ----------------------------------------------

\* s[a:b]
Slice(s, a, b) == SubSeq(s, a + 1, b)

\* bytes(data[::2])
EvenBytes(data) == [i \in 1..((Len(data) + 1) \div 2) |-> data[2 * i - 1]]

\* bytes(data[1::2])
OddBytes(data) == [i \in 1..(Len(data) \div 2) |-> data[2 * i]]

NoFile == [state |-> "unopened", buf |-> <<>>, disk |-> <<>>]

\* open(path, 'wb', buffering=buffer_size): the file is created or truncated
OpenWb(f) == [state |-> "open", buf |-> <<>>, disk |-> <<>>]

\* f.write(data): the writer keeps the bytes, and may hand its buffer on
FileWrite(f, data, flush) ==
    IF flush THEN [f EXCEPT !.buf = <<>>, !.disk = f.disk \o f.buf \o data]
             ELSE [f EXCEPT !.buf = f.buf \o data]

\* leaving the with block: flush and close an open file
FileClose_dropsBuffer(f) ==
    IF f.state = "open"
    THEN [state |-> "closed", buf |-> <<>>, disk |-> f.disk]
    ELSE f

FileClose_leavesOpen(f) == f

FileClose(f) ==
    IF f.state = "open"
    THEN [state |-> "closed", buf |-> <<>>, disk |-> f.disk \o f.buf]
    ELSE f

\* the bytes written to a file so far, in order
Content(f) == f.disk \o f.buf

NoResult == [bytes_written |-> -1, had_odd_byte |-> FALSE, odd_byte_value |-> -1]
NoPrev == [lo |-> <<>>, up |-> <<>>, result |-> NoResult, outcome |-> "none"]

\* ---- the call ---------------------------------------------------------------

Locals ==
    /\ pos = 0
    /\ bytes_written = 0
    /\ odd_byte_value = -1
    /\ remainder = <<>>
    /\ read_data = <<>>
    /\ chunk = <<>>
    /\ word_pairs = 0
    /\ lo_bytes = <<>>
    /\ up_bytes = <<>>
    /\ pc = "open_lo"
    /\ exc = "none"
    /\ outcome = "running"
    /\ result = NoResult
    /\ nReads = 0
    /\ nWrites = 0

Init ==
    /\ word_file \in SeqsUpTo(MaxLen)
    /\ big_endian \in BOOLEAN
    /\ odd_byte_action \in Actions
    /\ buffer_size \in 1..MaxBuf
    /\ lo_byte_file = NoFile
    /\ up_byte_file = NoFile
    /\ run = 1
    /\ prev = NoPrev
    /\ Locals

cfg == <<word_file, big_endian, odd_byte_action, buffer_size, run, prev>>

Min(a, b) == IF a < b THEN a ELSE b

\* chunk = remainder + read_data
Assemble_forgetsRemainder(rem, data) == data

Assemble(rem, data) == rem \o data

\* data = memoryview(chunk[:word_pairs * 2])
PairedData(c, wp) == Slice(c, 0, wp * 2)

\* the bytes of data that go to the lower file
LoBytesOf_swapped(data, be) == IF be THEN EvenBytes(data) ELSE OddBytes(data)

LoBytesOf(data, be) == IF be THEN OddBytes(data) ELSE EvenBytes(data)

\* the bytes of data that go to the upper file
UpBytesOf(data, be) == IF be THEN EvenBytes(data) ELSE OddBytes(data)

\* bytes_written += word_pairs
NextCount_countsChunks(bw, wp) == bw + 1

NextCount(bw, wp) == bw + wp

\* remainder = chunk[word_pairs * 2:]
Carry_dropped(c, wp) == <<>>

Carry_wholeChunk(c, wp) == c

Carry(c, wp) == Slice(c, wp * 2, Len(c))

\* return bytes_written, odd_byte_value >= 0, odd_byte_value if ... else -1
ReturnValue_noOddByte(bw, obv) ==
    [bytes_written |-> bw, had_odd_byte |-> FALSE, odd_byte_value |-> -1]

ReturnValue(bw, obv) ==
    [bytes_written |-> bw,
     had_odd_byte |-> obv >= 0,
     odd_byte_value |-> IF obv >= 0 THEN obv ELSE -1]

\* an IOError raised inside the with block leaves through the with block
RaiseIOError_retries == /\ exc' = "IOError"
                        /\ pc' = pc

RaiseIOError == /\ exc' = "IOError"
                /\ pc' = "with_exit"

\* open(lo_file, 'wb', buffering=buffer_size)
OpenLo ==
    /\ pc = "open_lo"
    /\ \/ /\ lo_byte_file' = OpenWb(lo_byte_file)
          /\ pc' = "open_up"
          /\ exc' = exc
       \/ /\ lo_byte_file' = lo_byte_file
          /\ exc' = "IOError"
          /\ pc' = "except"
    /\ UNCHANGED <<cfg, pos, up_byte_file, bytes_written, odd_byte_value,
                   remainder, read_data, chunk, word_pairs, lo_bytes,
                   up_bytes, outcome, result, nReads, nWrites>>

\* open(up_file, 'wb', buffering=buffer_size)
OpenUp ==
    /\ pc = "open_up"
    /\ \/ /\ up_byte_file' = OpenWb(up_byte_file)
          /\ pc' = "read"
          /\ exc' = exc
       \/ /\ up_byte_file' = up_byte_file
          /\ RaiseIOError
    /\ UNCHANGED <<cfg, pos, lo_byte_file, bytes_written, odd_byte_value,
                   remainder, read_data, chunk, word_pairs, lo_bytes,
                   up_bytes, outcome, result, nReads, nWrites>>

\* if not read_data: break
AfterRead_neverBreaks(n) == "prepend"

AfterRead(n) == IF n = 0 THEN "odd" ELSE "prepend"

\* read_data = word_file.read(buffer_size); if not read_data: break
Read ==
    /\ pc = "read"
    /\ nReads' = nReads + 1
    /\ \/ /\ \E n \in 0..Min(buffer_size, Len(word_file) - pos) :
                /\ (n = 0) <=> (pos = Len(word_file))
                /\ read_data' = Slice(word_file, pos, pos + n)
                /\ pos' = pos + n
                /\ pc' = AfterRead(n)
          /\ exc' = exc
       \/ /\ RaiseIOError
          /\ UNCHANGED <<read_data, pos>>
    /\ UNCHANGED <<cfg, lo_byte_file, up_byte_file, bytes_written,
                   odd_byte_value, remainder, chunk, word_pairs, lo_bytes,
                   up_bytes, outcome, result, nWrites>>

\* chunk = remainder + read_data; remainder = b''; word_pairs = chunk_len // 2
Prepend ==
    /\ pc = "prepend"
    /\ chunk' = Assemble(remainder, read_data)
    /\ remainder' = <<>>
    /\ word_pairs' = Len(chunk') \div 2
    /\ pc' = "pair"
    /\ UNCHANGED <<cfg, pos, lo_byte_file, up_byte_file, bytes_written,
                   odd_byte_value, read_data, lo_bytes, up_bytes, exc,
                   outcome, result, nReads, nWrites>>

\* if word_pairs > 0: slice the pair bytes; else: remainder = chunk
Pair ==
    /\ pc = "pair"
    /\ IF word_pairs > 0
       THEN /\ lo_bytes' = LoBytesOf(PairedData(chunk, word_pairs), big_endian)
            /\ up_bytes' = UpBytesOf(PairedData(chunk, word_pairs), big_endian)
            /\ remainder' = remainder
            /\ pc' = "write_lo"
       ELSE /\ remainder' = chunk
            /\ pc' = "read"
            /\ UNCHANGED <<lo_bytes, up_bytes>>
    /\ UNCHANGED <<cfg, pos, lo_byte_file, up_byte_file, bytes_written,
                   odd_byte_value, read_data, chunk, word_pairs, exc,
                   outcome, result, nReads, nWrites>>

\* lo_byte_file.write(lo_bytes)
WriteLo ==
    /\ pc = "write_lo"
    /\ nWrites' = nWrites + 1
    /\ \/ /\ \E flush \in BOOLEAN :
                lo_byte_file' = FileWrite(lo_byte_file, lo_bytes, flush)
          /\ pc' = "write_up"
          /\ exc' = exc
       \/ /\ RaiseIOError
          /\ lo_byte_file' = lo_byte_file
    /\ UNCHANGED <<cfg, pos, up_byte_file, bytes_written, odd_byte_value,
                   remainder, read_data, chunk, word_pairs, lo_bytes,
                   up_bytes, outcome, result, nReads>>

\* up_byte_file.write(up_bytes); bytes_written += word_pairs;
\* remainder = chunk[word_pairs * 2:]
WriteUp ==
    /\ pc = "write_up"
    /\ nWrites' = nWrites + 1
    /\ \/ /\ \E flush \in BOOLEAN :
                up_byte_file' = FileWrite(up_byte_file, up_bytes, flush)
          /\ bytes_written' = NextCount(bytes_written, word_pairs)
          /\ remainder' = Carry(chunk, word_pairs)
          /\ pc' = "read"
          /\ exc' = exc
       \/ /\ RaiseIOError
          /\ UNCHANGED <<up_byte_file, bytes_written, remainder>>
    /\ UNCHANGED <<cfg, pos, lo_byte_file, odd_byte_value, read_data, chunk,
                   word_pairs, lo_bytes, up_bytes, outcome, result, nReads>>

\* if remainder: odd_byte_value = remainder[0]; then the odd_byte_action
OddByte ==
    /\ pc = "odd"
    /\ IF remainder = <<>>
       THEN /\ pc' = "return"
            /\ UNCHANGED <<odd_byte_value, exc, lo_byte_file, up_byte_file,
                           nWrites>>
       ELSE CASE odd_byte_action = "error" ->
                   /\ odd_byte_value' = remainder[1]
                   /\ exc' = "SystemExit"
                   /\ pc' = "with_exit"
                   /\ UNCHANGED <<lo_byte_file, up_byte_file, nWrites>>
              [] odd_byte_action = "skip" ->
                   /\ odd_byte_value' = -1
                   /\ pc' = "return"
                   /\ UNCHANGED <<exc, lo_byte_file, up_byte_file, nWrites>>
              [] odd_byte_action = "lower" ->
                   /\ odd_byte_value' = remainder[1]
                   /\ nWrites' = nWrites + 1
                   /\ up_byte_file' = up_byte_file
                   /\ \/ /\ \E flush \in BOOLEAN :
                               lo_byte_file' =
                                   FileWrite(lo_byte_file, remainder, flush)
                         /\ pc' = "return"
                         /\ exc' = exc
                      \/ /\ RaiseIOError
                         /\ lo_byte_file' = lo_byte_file
              [] odd_byte_action = "upper" ->
                   /\ odd_byte_value' = remainder[1]
                   /\ nWrites' = nWrites + 1
                   /\ lo_byte_file' = lo_byte_file
                   /\ \/ /\ \E flush \in BOOLEAN :
                               up_byte_file' =
                                   FileWrite(up_byte_file, remainder, flush)
                         /\ pc' = "return"
                         /\ exc' = exc
                      \/ /\ RaiseIOError
                         /\ up_byte_file' = up_byte_file
    /\ UNCHANGED <<cfg, pos, bytes_written, remainder, read_data, chunk,
                   word_pairs, lo_bytes, up_bytes, outcome, result, nReads>>

\* return bytes_written, odd_byte_value >= 0, ...
Return ==
    /\ pc = "return"
    /\ result' = ReturnValue(bytes_written, odd_byte_value)
    /\ pc' = "with_exit"
    /\ UNCHANGED <<cfg, pos, lo_byte_file, up_byte_file, bytes_written,
                   odd_byte_value, remainder, read_data, chunk, word_pairs,
                   lo_bytes, up_bytes, exc, outcome, nReads, nWrites>>

\* the with statement's exit: both files are closed, whatever is in flight
WithExit ==
    /\ pc = "with_exit"
    /\ up_byte_file' = FileClose(up_byte_file)
    /\ lo_byte_file' = FileClose(lo_byte_file)
    /\ pc' = IF exc = "IOError" THEN "except" ELSE "done"
    /\ outcome' = CASE exc = "none" -> "returned"
                    [] exc = "SystemExit" -> "odd_length_exit"
                    [] OTHER -> outcome
    /\ UNCHANGED <<cfg, pos, bytes_written, odd_byte_value, remainder,
                   read_data, chunk, word_pairs, lo_bytes, up_bytes, exc,
                   result, nReads, nWrites>>

\* except IOError as e: print(...); sys.exit(1)
Except ==
    /\ pc = "except"
    /\ outcome' = "io_exit"
    /\ pc' = "done"
    /\ UNCHANGED <<cfg, pos, lo_byte_file, up_byte_file, bytes_written,
                   odd_byte_value, remainder, read_data, chunk, word_pairs,
                   lo_bytes, up_bytes, exc, result, nReads, nWrites>>

\* the same input is split a second time, with another buffer size
Rerun ==
    /\ pc = "done"
    /\ run = 1
    /\ run' = 2
    /\ prev' = [lo |-> Content(lo_byte_file), up |-> Content(up_byte_file),
                result |-> result, outcome |-> outcome]
    /\ buffer_size' \in 1..MaxBuf
    /\ pos' = 0
    /\ bytes_written' = 0
    /\ odd_byte_value' = -1
    /\ remainder' = <<>>
    /\ read_data' = <<>>
    /\ chunk' = <<>>
    /\ word_pairs' = 0
    /\ lo_bytes' = <<>>
    /\ up_bytes' = <<>>
    /\ pc' = "open_lo"
    /\ exc' = "none"
    /\ outcome' = "running"
    /\ result' = NoResult
    /\ nReads' = 0
    /\ nWrites' = 0
    /\ UNCHANGED <<word_file, big_endian, odd_byte_action, lo_byte_file,
                   up_byte_file>>

Next ==
    \/ OpenLo
    \/ OpenUp
    \/ Read
    \/ Prepend
    \/ Pair
    \/ WriteLo
    \/ WriteUp
    \/ OddByte
    \/ Return
    \/ WithExit
    \/ Except
    \/ Rerun

Spec == Init /\ [][Next]_vars

TypeOK ==
    /\ pos \in 0..Len(word_file)
    /\ pc \in {"open_lo", "open_up", "read", "prepend", "pair", "write_lo",
               "write_up", "odd", "return", "with_exit", "except", "done"}
    /\ exc \in {"none", "IOError", "SystemExit"}
    /\ outcome \in {"running", "returned", "odd_length_exit", "io_exit"}
    /\ odd_byte_value \in Byte \cup {-1}

\* ---- properties ----------------------------------------------------------

Half == Len(word_file) \div 2
OddLength == Len(word_file) % 2 = 1
Prefix(s, n) == SubSeq(s, 1, n)

\* the input bytes at offsets 0, 2, 4, ... and 1, 3, 5, ... of the whole words
InputEven == [i \in 1..Half |-> word_file[2 * i - 1]]
InputOdd == [i \in 1..Half |-> word_file[2 * i]]

\* what the byte order sends to each file
ExpectedLo == IF big_endian THEN InputOdd ELSE InputEven
ExpectedUp == IF big_endian THEN InputEven ELSE InputOdd

\* the read loop was left through the break; an IOError with the odd byte
\* already recorded comes from the tail write, after the loop
LoopExited ==
    \/ pc \in {"odd", "return"}
    \/ /\ pc \in {"with_exit", "except", "done"}
       /\ exc # "IOError" \/ odd_byte_value # -1

Returned == pc = "done" /\ outcome = "returned"

\* C1: once the loop has paired the whole input, the first floor(L/2) bytes
\* of the upper file are the even-offset input bytes and those of the lower
\* file the odd-offset ones in big-endian mode, and the other way round in
\* little-endian mode, in input order, whatever the buffer size and the
\* lengths of the reads.
C1_Deinterleave ==
    LoopExited =>
        /\ Len(Content(lo_byte_file)) >= Half
        /\ Len(Content(up_byte_file)) >= Half
        /\ big_endian =>
              /\ Prefix(Content(up_byte_file), Half) = InputEven
              /\ Prefix(Content(lo_byte_file), Half) = InputOdd
        /\ ~big_endian =>
              /\ Prefix(Content(lo_byte_file), Half) = InputEven
              /\ Prefix(Content(up_byte_file), Half) = InputOdd

\* two different words were split, with a read boundary inside a word
C1_Witness ==
    /\ Returned
    /\ word_file = <<0, 1, 1, 0>>
    /\ big_endian
    /\ nReads = 4
    /\ Content(up_byte_file) = <<0, 1>>
    /\ Content(lo_byte_file) = <<1, 0>>

\* C2: two calls on the same input, byte order and odd-byte policy that
\* differ only in buffer size and in how the reads cut the input, and that
\* meet no I/O failure, leave the same lower file, the same upper file and
\* the same outcome and returned value.
C2_BufferSizeIrrelevant ==
    (/\ pc = "done"
     /\ run = 2
     /\ outcome # "io_exit"
     /\ prev.outcome # "io_exit") =>
        /\ Content(lo_byte_file) = prev.lo
        /\ Content(up_byte_file) = prev.up
        /\ result = prev.result
        /\ outcome = prev.outcome

\* the second call read byte by byte what the first call did not
C2_Witness ==
    /\ pc = "done"
    /\ run = 2
    /\ outcome = "returned"
    /\ prev.outcome = "returned"
    /\ Len(word_file) = 3
    /\ buffer_size = 1
    /\ nReads = 4
    /\ prev.result.bytes_written = 1
    /\ Len(prev.lo) + Len(prev.up) = 3

\* C3: on normal return the count is floor(L/2); the lower file has
\* floor(L/2) bytes, plus one exactly when L is odd and the policy is
\* "lower"; the upper file likewise for "upper"; and for even L no odd
\* byte is reported.
C3_Counts ==
    Returned =>
        /\ result.bytes_written = Half
        /\ Len(Content(lo_byte_file)) =
              Half + (IF OddLength /\ odd_byte_action = "lower" THEN 1 ELSE 0)
        /\ Len(Content(up_byte_file)) =
              Half + (IF OddLength /\ odd_byte_action = "upper" THEN 1 ELSE 0)
        /\ ~OddLength => ~result.had_odd_byte /\ result.odd_byte_value = -1

\* an odd input under skip returned after several writes
C3_Witness ==
    /\ Returned
    /\ Len(word_file) = 3
    /\ odd_byte_action = "skip"
    /\ result.bytes_written = 1
    /\ Len(Content(lo_byte_file)) = 1
    /\ Len(Content(up_byte_file)) = 1

\* C4: for an odd-length input ending in b, under "lower" (resp. "upper")
\* the lower (resp. upper) file ends up as its paired bytes followed by b
\* once, the other file holds its paired bytes only, and the returned value
\* reports the odd byte with value b; also for a one-byte input.
C4_TrailingByteAssigned ==
    (Returned /\ OddLength /\ odd_byte_action \in {"lower", "upper"}) =>
        LET b == word_file[Len(word_file)] IN
        /\ odd_byte_action = "lower" =>
              /\ Content(lo_byte_file) = ExpectedLo \o <<b>>
              /\ Content(up_byte_file) = ExpectedUp
        /\ odd_byte_action = "upper" =>
              /\ Content(up_byte_file) = ExpectedUp \o <<b>>
              /\ Content(lo_byte_file) = ExpectedLo
        /\ result = [bytes_written |-> Half, had_odd_byte |-> TRUE,
                     odd_byte_value |-> b]

\* the one-byte input under "upper"
C4_Witness ==
    /\ Returned
    /\ word_file = <<1>>
    /\ odd_byte_action = "upper"
    /\ Content(up_byte_file) = <<1>>
    /\ Content(lo_byte_file) = <<>>
    /\ result.bytes_written = 0

\* C5: for an odd-length input under "error", the SystemExit is raised only
\* once all (L-1)/2 pairs are written, and a call that met no I/O failure
\* ends in the odd-length exit without a returned value, with the trailing
\* byte in neither file and the pairs kept: each file holds exactly its
\* (L-1)/2 paired bytes.
C5_OddLengthError ==
    /\ exc = "SystemExit" =>
          /\ OddLength /\ odd_byte_action = "error"
          /\ bytes_written = Half
          /\ Content(lo_byte_file) = ExpectedLo
          /\ Content(up_byte_file) = ExpectedUp
    /\ (pc = "done" /\ OddLength /\ odd_byte_action = "error"
        /\ outcome # "io_exit") =>
          /\ outcome = "odd_length_exit"
          /\ result = NoResult
          /\ lo_byte_file.disk = ExpectedLo
          /\ up_byte_file.disk = ExpectedUp

\* a three-byte input under "error" has exited with its pair on disk
C5_Witness ==
    /\ pc = "done"
    /\ outcome = "odd_length_exit"
    /\ Len(word_file) = 3
    /\ Len(lo_byte_file.disk) = 1
    /\ Len(up_byte_file.disk) = 1
    /\ odd_byte_value = word_file[3]

\* C6: under "skip" with an odd-length input the returned value records
\* that a trailing byte existed and was discarded: the odd-byte flag is set
\* while no byte value is reported, so the value differs from the one
\* returned for the input without its last byte.
C6_SkipRecorded ==
    (Returned /\ OddLength /\ odd_byte_action = "skip") =>
        /\ result.had_odd_byte
        /\ result.odd_byte_value = -1

\* C7: both files are open from before the first read until the with
\* block is left, and once the call is past the with block, on every exit
\* (return, odd-length exit, read failure, write failure), neither file is
\* open and neither holds bytes that did not reach the disk.
C7_SinksClosed ==
    /\ pc \in {"read", "prepend", "pair", "write_lo", "write_up", "odd",
               "return"} =>
          /\ lo_byte_file.state = "open"
          /\ up_byte_file.state = "open"
    /\ nReads > 0 /\ pc # "done" /\ pc # "except" /\ pc # "with_exit" =>
          /\ lo_byte_file.state = "open"
          /\ up_byte_file.state = "open"
    /\ pc \in {"except", "done"} =>
          /\ lo_byte_file.state # "open"
          /\ up_byte_file.state # "open"
          /\ lo_byte_file.buf = <<>>
          /\ up_byte_file.buf = <<>>

\* a write to the upper file failed and the lower file was closed with its
\* bytes on disk
C7_Witness ==
    /\ pc = "done"
    /\ outcome = "io_exit"
    /\ nWrites = 2
    /\ lo_byte_file.state = "closed"
    /\ up_byte_file.state = "closed"
    /\ Len(lo_byte_file.disk) = 1
    /\ up_byte_file.disk = <<>>

\* C8: from the step at which an open, read or write raised IOError, the
\* call makes no further read or write call, changes the bytes written to
\* neither file, and goes through the with exit and the handler straight
\* to the I/O-failure exit.
C8_IOFailureImmediate ==
    [][(exc = "IOError" /\ pc # "done") =>
          /\ nReads' = nReads
          /\ nWrites' = nWrites
          /\ Content(lo_byte_file)' = Content(lo_byte_file)
          /\ Content(up_byte_file)' = Content(up_byte_file)
          /\ exc' = "IOError"
          /\ \/ pc = "with_exit" /\ pc' = "except"
             \/ pc = "except" /\ pc' = "done" /\ outcome' = "io_exit"]_vars

\* a read failed after a pair was written, and the pair is still there
C8_Witness ==
    /\ pc = "done"
    /\ outcome = "io_exit"
    /\ nReads = 2
    /\ nWrites = 2
    /\ Len(Content(lo_byte_file)) = 1
    /\ Len(Content(up_byte_file)) = 1
    /\ Len(word_file) = 4

\* C9: the remainder never holds more than one byte, and once the loop is
\* left through the break it is non-empty exactly when the input length is
\* odd.
C9_RemainderBound ==
    /\ Len(remainder) <= 1
    /\ LoopExited => ((remainder # <<>>) <=> OddLength)

\* byte-by-byte reads left the last byte of a three-byte input in the carry
C9_Witness ==
    /\ pc = "odd"
    /\ Len(word_file) = 3
    /\ nReads = 4
    /\ remainder = <<word_file[3]>>

\* C10: at the start of every loop iteration without I/O failure, both
\* files hold exactly as many bytes as word pairs were counted, they are the
\* deinterleaved bytes read so far, twice the count plus the remainder
\* length is the number of bytes read, and the remainder, if any, is the
\* byte read last.
C10_Conservation ==
    (pc = "read" /\ exc = "none") =>
        /\ Len(Content(lo_byte_file)) = bytes_written
        /\ Len(Content(up_byte_file)) = bytes_written
        /\ 2 * bytes_written + Len(remainder) = pos
        /\ remainder # <<>> => remainder = <<word_file[pos]>>
        /\ Content(lo_byte_file) = Prefix(ExpectedLo, bytes_written)
        /\ Content(up_byte_file) = Prefix(ExpectedUp, bytes_written)

\* a pair was written and a byte is carried into the next read
C10_Witness ==
    /\ pc = "read"
    /\ exc = "none"
    /\ pos = 3
    /\ Len(word_file) = 4
    /\ bytes_written = 1
    /\ remainder = <<word_file[3]>>
    /\ Len(read_data) = 2

\* ---- termination ---------------------------------------------------------

\* one call, statement after statement
Call ==
    \/ OpenLo
    \/ OpenUp
    \/ Read
    \/ Prepend
    \/ Pair
    \/ WriteLo
    \/ WriteUp
    \/ OddByte
    \/ Return
    \/ WithExit
    \/ Except

\* the call is sequential and every read returns: a statement that can run
\* does run
LiveSpec == Init /\ [][Call]_vars /\ WF_vars(Call)

LoopPcs == {"read", "prepend", "pair", "write_lo", "write_up"}

\* leaving the loop without an IOError happens at the read that finds the
\* source exhausted and returns no byte
ExitsOnEmptyRead ==
    (pc \in LoopPcs /\ pc' \notin LoopPcs /\ exc' # "IOError") =>
        /\ pc = "read"
        /\ pos = Len(word_file)
        /\ read_data' = <<>>
        /\ pc' = "odd"

\* a chunk shorter than two bytes is kept whole as the remainder, nothing
\* is written and the loop reads again
ShortChunkCarried ==
    (pc = "pair" /\ word_pairs = 0) =>
        /\ pc' = "read"
        /\ remainder' = chunk
        /\ nWrites' = nWrites
        /\ lo_byte_file' = lo_byte_file
        /\ up_byte_file' = up_byte_file
        /\ bytes_written' = bytes_written

\* a carried byte becomes the first byte of the next chunk, in one word
\* with the first byte of the next non-empty read
CarryPairedWithNext ==
    (pc = "prepend" /\ remainder # <<>>) =>
        /\ read_data # <<>>
        /\ word_pairs' >= 1
        /\ PairedData(chunk', word_pairs')[1] = remainder[1]
        /\ PairedData(chunk', word_pairs')[2] = read_data[1]

\* C11: with reads that return 1..buffer_size bytes until the source is
\* exhausted and none afterwards, the loop, once entered, is eventually
\* left; it is left without an IOError only at a zero-length read; a chunk
\* shorter than two bytes writes nothing and does not end the loop; and its
\* byte is paired with the first byte of the next non-empty read.
C11_LoopTerminates ==
    /\ (pc \in LoopPcs) ~> (pc \notin LoopPcs)
    /\ [][ExitsOnEmptyRead /\ ShortChunkCarried /\ CarryPairedWithNext]_vars

\* four bytes were read one at a time, each odd one carried, and the loop
\* ended on the fifth, empty read
C11_Witness ==
    /\ pc = "odd"
    /\ buffer_size = 1
    /\ Len(word_file) = 4
    /\ nReads = 5
    /\ nWrites = 4
    /\ bytes_written = 2
    /\ remainder = <<>>

====
